---- MODULE Spec2Model ----
(***************************************************************************)
(* rs3cache_backend: the CacheIndex facade over its two storage back-ends, *)
(* the legacy dat/idx sector reader (index/dat.rs) and the jcache sqlite   *)
(* reader (index/sqlite.rs).  The cache on disk is static: Init draws it   *)
(* from bounded sets, the actions are the operations of a CacheIndex.      *)
(***************************************************************************)
EXTENDS Integers, Sequences, FiniteSets, TLC

VARIABLES
    backend,      \* "dat" | "sqlite": the cargo feature the crate is built with
    datPresent,   \* cache/main_file_cache.dat exists
    idxPresent,   \* cache/main_file_cache.idx{a} exists
    entry,        \* the 6 bytes of the idx entry that is looked up, as a record
    hdr,          \* main_file_cache.dat: sector number -> first 10 bytes of the sector
    jcachePresent,\* js5-{index_id}.jcache exists
    index_rows,   \* table cache_index: "norow" | "bad" | "ok"
    blobMeta,     \* the IndexMetadata the cache_index blob decodes to
    cache,        \* table cache: KEY -> row, or NoRow
    folder,       \* the index ids whose js5-{id}.jcache is in the folder that is swept
    map_files,    \* the files of archive 5 of index 0, and the bytes of map_index
    lines,        \* what the coherence sweep printed
    walk,         \* the locals of a read_index call that is under way
    state,        \* "none" | "open" | "failed": the CacheIndex value
    index_id,     \* CacheIndex.index_id
    metadatas,    \* CacheIndex.metadatas: archive id -> Metadata
    call,         \* the last operation and its arguments
    result        \* what the last operation returned

vars == <<backend, datPresent, idxPresent, entry, hdr, jcachePresent, index_rows,
          blobMeta, cache, folder, map_files, lines, walk,
          state, index_id, metadatas, call, result>>

disk == <<backend, datPresent, idxPresent, entry, hdr, jcachePresent, index_rows,
          blobMeta, cache, folder, map_files>>

-----------------------------------------------------------------------------
(* Program constants *)

SectorSize == 520
EntrySize == 6
SmallHeader == 8
LargeHeader == 10
SmallBlock == 512
LargeBlock == 510
LargeArchive == 65535
MetadataIndex == 255
\* get_index: the one index it supports, the archive of index 0 it reads, the
\* bytes of a record of map_index.
MapIndex == 4
MapArchive == 5
RecordSize == 7
\* 2^32 / 8: the u32 byte offsets of the data file, all multiples of 8, in units of 8.
U29 == 536870912

(* Bounds of the model *)

\* The sectors of main_file_cache.dat after the reserved sector 0.
Sectors == {1, 2}
\* The first sector number whose byte offset does not fit 32 bits.
WrapSector == (U29 \div (SectorSize \div 8)) + 1
\* The part echoes written in the sectors are 0..MaxPart.
MaxPart == 1
\* The archive ids of a jcache index are 1..MaxArchive.
MaxArchive == 2
\* The index ids a CacheIndex is opened with.
DatIndexIds == {4}
\* The index ids of the Metadata handed to the legacy get_file.
DatMetaIndexIds == {0, 4}
SqliteIndexIds == {4, 8, 47}
\* The archive ids read from the legacy cache: one below 0xFFFF, one not.
DatArchiveIds == {4, 65535}
\* The length fields of the idx entry.
Lengths == {0, 300, 512, 1024}
\* The records of a map_index file are at most MaxRecords.
MaxRecords == 2
\* The mapsquare fields written: (50, 50), (128, 1), (0, 255).
MapSquares == {12850, 32769, 255}
\* The f2p bytes written.
F2pBytes == {0, 2}
\* The names looked up, as bytes: "Aa" and "BB" have one hash, "huffman" has a
\* hash above 16 bits.
Names == {<<65, 97>>, <<66, 66>>, <<98>>, <<104, 117, 102, 102, 109, 97, 110>>}

DatLen == (Cardinality(Sectors) + 1) * SectorSize

Min(x, y) == IF x < y THEN x ELSE y

-----------------------------------------------------------------------------
(* Values returned by the operations: CacheResult<T> or a panic *)

NoData == [src |-> "none", chunks |-> <<>>, key |-> 0, inflated |-> FALSE]

Ok(d) ==
    [kind |-> "ok", err |-> "", index |-> 0, archive |-> 0,
     expected |-> 0, actual |-> 0, data |-> d]

Err(e, i, a, exp, act) ==
    [kind |-> "err", err |-> e, index |-> i, archive |-> a,
     expected |-> exp, actual |-> act, data |-> NoData]

Panic(msg) ==
    [kind |-> "panic", err |-> msg, index |-> 0, archive |-> 0,
     expected |-> 0, actual |-> 0, data |-> NoData]

NoResult ==
    [kind |-> "none", err |-> "", index |-> 0, archive |-> 0,
     expected |-> 0, actual |-> 0, data |-> NoData]

NoCall == [op |-> "none", index_id |-> 0, archive_id |-> 0]

RECURSIVE SumLen(_)
SumLen(chunks) ==
    IF chunks = <<>> THEN 0 ELSE Head(chunks)[2] + SumLen(Tail(chunks))

\* The number of bytes of a byte buffer.
DataLen(d) == SumLen(d.chunks)

\* An archive without files, a read_index call that has not begun.
NoFiles == [names |-> {}, index |-> <<>>]
NoWalk == [pc |-> "idle"]

-----------------------------------------------------------------------------
(* Big-endian integers and the bytes of main_file_cache.dat *)

RECURSIVE FromBe(_)
FromBe(bytes) ==
    IF bytes = <<>> THEN 0
    ELSE FromBe(SubSeq(bytes, 1, Len(bytes) - 1)) * 256 + bytes[Len(bytes)]

RECURSIVE ToBe(_, _)
ToBe(v, n) ==
    IF n = 0 THEN <<>> ELSE Append(ToBe(v \div 256, n - 1), v % 256)

\* A sector as written for an archive: the header format follows the archive id,
\* the bytes after the header belong to the body.
SectorBytes(archive, part, next, idx) ==
    IF archive >= LargeArchive
    THEN ToBe(archive, 4) \o ToBe(part, 2) \o ToBe(next, 3) \o ToBe(idx, 1)
    ELSE ToBe(archive, 2) \o ToBe(part, 2) \o ToBe(next, 3) \o ToBe(idx, 1) \o <<0, 0>>

\* The byte at an offset of the data file; body bytes and sector 0 read as 0.
FileByte(h, pos) ==
    IF (pos \div SectorSize) \in Sectors /\ (pos % SectorSize) < LargeHeader
    THEN h[pos \div SectorSize][(pos % SectorSize) + 1]
    ELSE 0

FileBytes(h, pos, n) == [i \in 1..n |-> FileByte(h, pos + i - 1)]

-----------------------------------------------------------------------------
(* index/dat.rs: the legacy dat/idx back-end *)

\* (sector * 520) as u32: a product that does not fit 32 bits panics when the build
\* has overflow checks and wraps otherwise.  Offsets past the end of the data file
\* all read alike, they are cut to DatLen.
SeekOffset(sector, checks) ==
    LET units == sector * (SectorSize \div 8)
        wrapped == units % U29
    IN  [panic |-> units >= U29 /\ checks,
         value |-> IF wrapped >= DatLen \div 8 THEN DatLen ELSE wrapped * 8]

\* (b * 6) as u32 does not fit 32 bits.
EntryOverflows(b) == b > ((U29 - 1) * 4 + 3) \div (EntrySize \div 2)

get_entry(a, b, checks) ==
    IF ~idxPresent
    THEN [res |-> Err("CacheNotFound", a, b, 0, 0), length |-> 0, sector |-> 0]
    ELSE IF EntryOverflows(b) /\ checks
    THEN [res |-> Panic("overflow"), length |-> 0, sector |-> 0]
    ELSE IF entry.eof
    THEN [res |-> Err("EndOfInput", 0, 0, 0, 0), length |-> 0, sector |-> 0]
    ELSE [res |-> Ok(NoData), length |-> entry.length, sector |-> entry.sector]

\* read_sectors with the 512-byte block of the short header for every archive id.
RECURSIVE read_sectors_oneblock(_, _, _, _, _, _, _)
read_sectors_oneblock(b, length, sector, part, read_count, chunks, checks) ==
    IF sector = 0
    THEN Ok([src |-> "dat", chunks |-> chunks, key |-> b, inflated |-> FALSE])
    ELSE
    LET seek == SeekOffset(sector, checks)
        pos == seek.value
        large == b >= LargeArchive
        header_size == IF large THEN LargeHeader ELSE SmallHeader
        echo_size == IF large THEN 4 ELSE 2
        block_size == Min(SmallBlock, length - read_count)
        current_archive == FromBe(FileBytes(hdr, pos, echo_size))
        current_part == FromBe(FileBytes(hdr, pos + echo_size, 2))
        new_sector == FromBe(FileBytes(hdr, pos + echo_size + 2, 3))
    IN  IF seek.panic THEN Panic("overflow")
        ELSE IF pos + header_size > DatLen THEN Err("EndOfInput", 0, 0, 0, 0)
        ELSE IF b # current_archive THEN Panic("assert_eq archive")
        ELSE IF part # current_part THEN Panic("assert_eq part")
        ELSE IF pos + header_size + block_size > DatLen THEN Err("EndOfInput", 0, 0, 0, 0)
        ELSE read_sectors_oneblock(b, length, new_sector, part + 1, read_count + block_size,
                                   IF block_size = 0 THEN chunks
                                   ELSE Append(chunks, <<pos + header_size, block_size>>),
                                   checks)

\* The loop of read_index, one sector per call.
RECURSIVE read_sectors(_, _, _, _, _, _, _)
read_sectors(b, length, sector, part, read_count, chunks, checks) ==
    IF sector = 0
    THEN Ok([src |-> "dat", chunks |-> chunks, key |-> b, inflated |-> FALSE])
    ELSE
    LET seek == SeekOffset(sector, checks)
        pos == seek.value
        large == b >= LargeArchive
        header_size == IF large THEN LargeHeader ELSE SmallHeader
        echo_size == IF large THEN 4 ELSE 2
        block_size == Min(IF large THEN LargeBlock ELSE SmallBlock, length - read_count)
        current_archive == FromBe(FileBytes(hdr, pos, echo_size))
        current_part == FromBe(FileBytes(hdr, pos + echo_size, 2))
        new_sector == FromBe(FileBytes(hdr, pos + echo_size + 2, 3))
    IN  IF seek.panic THEN Panic("overflow")
        ELSE IF pos + header_size > DatLen THEN Err("EndOfInput", 0, 0, 0, 0)
        ELSE IF b # current_archive THEN Panic("assert_eq archive")
        ELSE IF part # current_part THEN Panic("assert_eq part")
        ELSE IF pos + header_size + block_size > DatLen THEN Err("EndOfInput", 0, 0, 0, 0)
        ELSE read_sectors(b, length, new_sector, part + 1, read_count + block_size,
                          IF block_size = 0 THEN chunks
                          ELSE Append(chunks, <<pos + header_size, block_size>>),
                          checks)

read_index(a, b, checks) ==
    LET e == get_entry(a, b, checks)
    IN  IF e.res.kind # "ok" THEN e.res
        ELSE read_sectors(b, e.length, e.sector, 0, 0, <<>>, checks)

\* The locals of read_index once get_entry has returned.
walk_begin(a, b, checks) ==
    LET e == get_entry(a, b, checks)
    IN  [pc |-> IF e.res.kind = "ok" THEN "loop" ELSE "done",
         res |-> IF e.res.kind = "ok" THEN NoResult ELSE e.res,
         a |-> a, b |-> b, checks |-> checks,
         length |-> e.length, sector |-> e.sector,
         part |-> 0, read_count |-> 0, chunks |-> <<>>]

\* read_index leaving the loop with a result, an error or a panic.
Stop(w, r) == [w EXCEPT !.pc = "done", !.res = r]

\* walk_step without the increment of part.
walk_step_samepart(w) ==
    IF w.sector = 0
    THEN Stop(w, Ok([src |-> "dat", chunks |-> w.chunks, key |-> w.b, inflated |-> FALSE]))
    ELSE
    LET seek == SeekOffset(w.sector, w.checks)
        pos == seek.value
        large == w.b >= LargeArchive
        header_size == IF large THEN LargeHeader ELSE SmallHeader
        echo_size == IF large THEN 4 ELSE 2
        block_size == Min(IF large THEN LargeBlock ELSE SmallBlock, w.length - w.read_count)
        current_archive == FromBe(FileBytes(hdr, pos, echo_size))
        current_part == FromBe(FileBytes(hdr, pos + echo_size, 2))
        new_sector == FromBe(FileBytes(hdr, pos + echo_size + 2, 3))
    IN  IF seek.panic THEN Stop(w, Panic("overflow"))
        ELSE IF pos + header_size > DatLen THEN Stop(w, Err("EndOfInput", 0, 0, 0, 0))
        ELSE IF w.b # current_archive THEN Stop(w, Panic("assert_eq archive"))
        ELSE IF w.part # current_part THEN Stop(w, Panic("assert_eq part"))
        ELSE IF pos + header_size + block_size > DatLen
        THEN Stop(w, Err("EndOfInput", 0, 0, 0, 0))
        ELSE [w EXCEPT !.sector = new_sector,
                       !.read_count = @ + block_size,
                       !.chunks = IF block_size = 0 THEN @
                                  ELSE Append(@, <<pos + header_size, block_size>>)]

\* One test of `while sector != 0` and, when it passes, one run of the loop body.
walk_step(w) ==
    IF w.sector = 0
    THEN Stop(w, Ok([src |-> "dat", chunks |-> w.chunks, key |-> w.b, inflated |-> FALSE]))
    ELSE
    LET seek == SeekOffset(w.sector, w.checks)
        pos == seek.value
        large == w.b >= LargeArchive
        header_size == IF large THEN LargeHeader ELSE SmallHeader
        echo_size == IF large THEN 4 ELSE 2
        block_size == Min(IF large THEN LargeBlock ELSE SmallBlock, w.length - w.read_count)
        current_archive == FromBe(FileBytes(hdr, pos, echo_size))
        current_part == FromBe(FileBytes(hdr, pos + echo_size, 2))
        new_sector == FromBe(FileBytes(hdr, pos + echo_size + 2, 3))
    IN  IF seek.panic THEN Stop(w, Panic("overflow"))
        ELSE IF pos + header_size > DatLen THEN Stop(w, Err("EndOfInput", 0, 0, 0, 0))
        ELSE IF w.b # current_archive THEN Stop(w, Panic("assert_eq archive"))
        ELSE IF w.part # current_part THEN Stop(w, Panic("assert_eq part"))
        ELSE IF pos + header_size + block_size > DatLen
        THEN Stop(w, Err("EndOfInput", 0, 0, 0, 0))
        ELSE [w EXCEPT !.sector = new_sector,
                       !.part = @ + 1,
                       !.read_count = @ + block_size,
                       !.chunks = IF block_size = 0 THEN @
                                  ELSE Append(@, <<pos + header_size, block_size>>)]

\* decoder::decompress: the container is opaque, `valid` says whether the bytes
\* are a well-formed container; no bytes at all never are.
decompress(d, valid) ==
    IF DataLen(d) = 0 \/ ~valid THEN Err("Decompression", 0, 0, 0, 0)
    ELSE Ok([d EXCEPT !.inflated = TRUE])

dat_get_file(m, checks, valid) ==
    LET r == read_index(m.index_id, m.archive_id, checks)
    IN  IF r.kind # "ok" THEN r
        ELSE IF m.index_id = 0 THEN r
        ELSE decompress(r.data, valid)

\* IndexMetadata::empty()
EmptyMetadata == [k \in {} |-> 0]

\* What a constructor returns: the result and the fields of the new CacheIndex.
NotBuilt(r) == [res |-> r, index_id |-> 0, metadatas |-> EmptyMetadata]

\* dat_new without the check that the data file exists.
dat_new_unchecked(id) ==
    [res |-> Ok(NoData), index_id |-> id, metadatas |-> EmptyMetadata]

dat_new(id) ==
    IF ~datPresent THEN NotBuilt(Err("CacheNotFound", 0, 0, 0, 0))
    ELSE [res |-> Ok(NoData), index_id |-> id, metadatas |-> EmptyMetadata]

-----------------------------------------------------------------------------
(* index/sqlite.rs: the jcache back-end.  The database file has its two     *)
(* tables with integer CRC and VERSION columns, so that prepare, query and *)
(* row.get succeed; what varies is which rows there are and what they hold. *)

ArchiveIds == 1..MaxArchive

\* The crc and version the index metadata lists for an archive.
CrcOf(k) == 10 * k
VersionOf(k) == k + 1

NoRow == [present |-> FALSE, crc |-> 0, version |-> 0]

\* The rows the cache table can hold under KEY = k.
Rows(k) ==
    [present : {TRUE},
     crc : {0, CrcOf(k) + 1, CrcOf(k) + 2},
     version : {0, VersionOf(k), VersionOf(k) + 1}]

RowData(k) == [src |-> "row", chunks |-> <<<<0, 1>>>>, key |-> k, inflated |-> FALSE]

\* IndexMetadata::deserialize: the blob lists crc and version per archive id.
deserialize(id, blob) ==
    [k \in DOMAIN blob |->
        [index_id |-> id, archive_id |-> k, crc |-> blob[k].crc, version |-> blob[k].version]]

get_raw_metadata ==
    IF index_rows = "norow" THEN Panic("unwrap on None")
    ELSE IF index_rows = "bad" THEN Err("Decompression", 0, 0, 0, 0)
    ELSE Ok(NoData)

\* crc_offset without the arm for index 47.
crc_offset_no47(id) == IF id = 8 THEN 2 ELSE 1

crc_offset(id) == IF id = 8 THEN 2 ELSE IF id = 47 THEN 2 ELSE 1

\* sqlite_get_file without the version comparison.
sqlite_get_file_noversion(self_id, m, valid) ==
    LET row == cache[m.archive_id]
        crc == row.crc
        version == row.version
    IN  IF ~row.present THEN Err("ArchiveNotFound", self_id, m.archive_id, 0, 0)
        ELSE IF crc = 0 /\ version = 0
        THEN Err("ArchiveNotFound", m.index_id, m.archive_id, 0, 0)
        ELSE IF m.crc + crc_offset(self_id) # crc
        THEN Err("Crc", m.index_id, m.archive_id, m.crc + crc_offset(self_id), crc)
        ELSE decompress(RowData(m.archive_id), valid)

\* sqlite_get_file with the crc comparison ahead of the test for an empty slot.
sqlite_get_file_crcfirst(self_id, m, valid) ==
    LET row == cache[m.archive_id]
        crc == row.crc
        version == row.version
    IN  IF ~row.present THEN Err("ArchiveNotFound", self_id, m.archive_id, 0, 0)
        ELSE IF m.crc + crc_offset(self_id) # crc
        THEN Err("Crc", m.index_id, m.archive_id, m.crc + crc_offset(self_id), crc)
        ELSE IF crc = 0 /\ version = 0
        THEN Err("ArchiveNotFound", m.index_id, m.archive_id, 0, 0)
        ELSE IF m.version # version
        THEN Err("Version", m.index_id, m.archive_id, m.version, version)
        ELSE decompress(RowData(m.archive_id), valid)

sqlite_get_file(self_id, m, valid) ==
    LET row == cache[m.archive_id]
        crc == row.crc
        version == row.version
    IN  IF ~row.present THEN Err("ArchiveNotFound", self_id, m.archive_id, 0, 0)
        ELSE IF crc = 0 /\ version = 0
        THEN Err("ArchiveNotFound", m.index_id, m.archive_id, 0, 0)
        ELSE IF m.crc + crc_offset(self_id) # crc
        THEN Err("Crc", m.index_id, m.archive_id, m.crc + crc_offset(self_id), crc)
        ELSE IF m.version # version
        THEN Err("Version", m.index_id, m.archive_id, m.version, version)
        ELSE decompress(RowData(m.archive_id), valid)

\* The smallest key of a non-empty set of archive ids.
MinKey(S) == CHOOSE k \in S : \A j \in S : k <= j

\* coherence_loop without the version comparison.
RECURSIVE coherence_loop_noversion(_, _, _)
coherence_loop_noversion(self_id, metas, todo) ==
    IF todo = {} THEN Ok(NoData)
    ELSE
    LET archive_id == MinKey(todo)
        metadata == metas[archive_id]
        row == cache[archive_id]
        crc == row.crc
        version == row.version
    IN  IF ~row.present THEN Panic("unwrap on None")
        ELSE IF crc = 0 /\ version = 0
        THEN Err("ArchiveNotFound", metadata.index_id, metadata.archive_id, 0, 0)
        ELSE IF metadata.crc + crc_offset(self_id) # crc
        THEN Err("Crc", metadata.index_id, metadata.archive_id,
                 metadata.crc + crc_offset(self_id), crc)
        ELSE coherence_loop_noversion(self_id, metas, todo \ {archive_id})

\* The loop of assert_coherence over the keys that are still to be visited.
RECURSIVE coherence_loop(_, _, _)
coherence_loop(self_id, metas, todo) ==
    IF todo = {} THEN Ok(NoData)
    ELSE
    LET archive_id == MinKey(todo)
        metadata == metas[archive_id]
        row == cache[archive_id]
        crc == row.crc
        version == row.version
    IN  IF ~row.present THEN Panic("unwrap on None")
        ELSE IF crc = 0 /\ version = 0
        THEN Err("ArchiveNotFound", metadata.index_id, metadata.archive_id, 0, 0)
        ELSE IF metadata.crc + crc_offset(self_id) # crc
        THEN Err("Crc", metadata.index_id, metadata.archive_id,
                 metadata.crc + crc_offset(self_id), crc)
        ELSE IF metadata.version # version
        THEN Err("Version", metadata.index_id, metadata.archive_id,
                 metadata.version, version)
        ELSE coherence_loop(self_id, metas, todo \ {archive_id})

assert_coherence(self_id, metas) == coherence_loop(self_id, metas, DOMAIN metas)

sqlite_new(id) ==
    IF ~jcachePresent THEN NotBuilt(Err("CacheNotFound", 0, 0, 0, 0))
    ELSE IF get_raw_metadata.kind # "ok" THEN NotBuilt(get_raw_metadata)
    ELSE [res |-> Ok(NoData), index_id |-> id, metadatas |-> deserialize(id, blobMeta)]

-----------------------------------------------------------------------------
(* The legacy lookup by name *)

\* 2^16: a 32-bit hash is kept as its two 16-bit halves <<high, low>>.
Half == 65536

\* hash::hash_archive: h = h * 31 + b over the bytes of the name, wrapping at 32 bits.
RECURSIVE hash_from(_, _)
hash_from(h, bytes) ==
    IF bytes = <<>> THEN h
    ELSE LET low == h[2] * 31 + Head(bytes)
             high == h[1] * 31 + (low \div Half)
         IN  hash_from(<<high % Half, low % Half>>, Tail(bytes))

hash_archive(name) == hash_from(<<0, 0>>, name)

\* Metadata::name() of an archive without a name.
None == <<>>

\* by_name_scan visiting the archives in descending order of their ids.
RECURSIVE by_name_scan_descending(_, _, _, _, _)
by_name_scan_descending(metas, hash, todo, checks, valid) ==
    IF todo = {} THEN Err("ArchiveNotFound", 0, 0, 0, 0)
    ELSE LET k == CHOOSE i \in todo : \A j \in todo : j <= i
             m == metas[k]
         IN  IF m.name = hash THEN dat_get_file(m, checks, valid)
             ELSE by_name_scan_descending(metas, hash, todo \ {k}, checks, valid)

\* The loop of archive_by_name over the archives that are still to be visited.
RECURSIVE by_name_scan(_, _, _, _, _)
by_name_scan(metas, hash, todo, checks, valid) ==
    IF todo = {} THEN Err("ArchiveNotFound", 0, 0, 0, 0)
    ELSE LET k == MinKey(todo)
             m == metas[k]
         IN  IF m.name = hash THEN dat_get_file(m, checks, valid)
             ELSE by_name_scan(metas, hash, todo \ {k}, checks, valid)

archive_by_name(metas, name, checks, valid) ==
    by_name_scan(metas, hash_archive(name), DOMAIN metas, checks, valid)

-----------------------------------------------------------------------------
(* The legacy map-square index *)

\* CacheIndex::archive: the payload of get_file for (self.index_id, archive_id),
\* split into its named files.
archive(self_id, archive_id, checks, valid) ==
    LET r == dat_get_file([index_id |-> self_id, archive_id |-> archive_id,
                           crc |-> 0, version |-> 0], checks, valid)
    IN  [res |-> r, files |-> IF r.kind = "ok" THEN map_files ELSE NoFiles]

\* Archive::file_named: whether the archive has the file, and its bytes.
file_named(a, name) ==
    [found |-> name \in a.names,
     bytes |-> IF name = "map_index" /\ name \in a.names THEN a.index ELSE <<>>]

\* The order of the keys (u8, u8) of the BTreeMap.
KeyLess(k1, k2) == k1[1] < k2[1] \/ (k1[1] = k2[1] /\ k1[2] < k2[2])

\* btree_insert keeping the value a key already has.
RECURSIVE btree_insert_keep(_, _, _)
btree_insert_keep(map, key, meta) ==
    IF map = <<>> THEN <<[key |-> key, meta |-> meta]>>
    ELSE IF Head(map).key = key THEN map
    ELSE IF KeyLess(key, Head(map).key) THEN <<[key |-> key, meta |-> meta]>> \o map
    ELSE <<Head(map)>> \o btree_insert_keep(Tail(map), key, meta)

\* BTreeMap::insert on the map as the sequence of its entries in key order.
RECURSIVE btree_insert(_, _, _)
btree_insert(map, key, meta) ==
    IF map = <<>> THEN <<[key |-> key, meta |-> meta]>>
    ELSE IF Head(map).key = key THEN <<[key |-> key, meta |-> meta]>> \o Tail(map)
    ELSE IF KeyLess(key, Head(map).key) THEN <<[key |-> key, meta |-> meta]>> \o map
    ELSE <<Head(map)>> \o btree_insert(Tail(map), key, meta)

\* The loop of get_index: n records are left in index, map holds the earlier ones.
RECURSIVE decode_records(_, _, _)
decode_records(index, n, map) ==
    IF n = 0 THEN Ok(map)
    ELSE
    LET meta == [mapsquare |-> FromBe(SubSeq(index, 1, 2)),
                 mapfile |-> FromBe(SubSeq(index, 3, 4)),
                 locfile |-> FromBe(SubSeq(index, 5, 6)),
                 f2p |-> index[RecordSize] # 0]
        i == meta.mapsquare \div 256
        j == meta.mapsquare % 256
    IN  IF i > 255 THEN Panic("try_into")
        ELSE decode_records(SubSeq(index, RecordSize + 1, Len(index)), n - 1,
                            btree_insert(map, <<i, j>>, meta))

\* What get_index leaves: its result and the fields of the CacheIndex.
Left(r, id, metas) == [res |-> r, index_id |-> id, metadatas |-> metas]

\* get_index without the assignment that restores index_id.
get_index_norestore(self_id, metas, checks) ==
    IF self_id # MapIndex THEN Left(Panic("unimplemented"), self_id, metas)
    ELSE
    LET a == archive(0, MapArchive, checks, TRUE)
        index == file_named(a.files, "map_index")
    IN  IF a.res.kind # "ok" THEN Left(Panic("unwrap on Err"), 0, metas)
        ELSE IF \E f \in {"map_index", "map_version", "map_crc"} : ~file_named(a.files, f).found
        THEN Left(Panic("unwrap on None"), 0, metas)
        ELSE Left(decode_records(index.bytes, Len(index.bytes) \div RecordSize, <<>>), 0, metas)

\* get_index storing the catalog of index 0 as the metadata of the CacheIndex.
get_index_reloads(self_id, metas, checks) ==
    IF self_id # MapIndex THEN Left(Panic("unimplemented"), self_id, metas)
    ELSE
    LET a == archive(0, MapArchive, checks, TRUE)
        index == file_named(a.files, "map_index")
    IN  IF a.res.kind # "ok" THEN Left(Panic("unwrap on Err"), 0, metas)
        ELSE IF \E f \in {"map_index", "map_version", "map_crc"} : ~file_named(a.files, f).found
        THEN Left(Panic("unwrap on None"), 0, metas)
        ELSE Left(decode_records(index.bytes, Len(index.bytes) \div RecordSize, <<>>),
                  self_id, deserialize(0, blobMeta))

get_index(self_id, metas, checks) ==
    IF self_id # MapIndex THEN Left(Panic("unimplemented"), self_id, metas)
    ELSE
    LET a == archive(0, MapArchive, checks, TRUE)
        index == file_named(a.files, "map_index")
    IN  IF a.res.kind # "ok" THEN Left(Panic("unwrap on Err"), 0, metas)
        ELSE IF \E f \in {"map_index", "map_version", "map_crc"} : ~file_named(a.files, f).found
        THEN Left(Panic("unwrap on None"), 0, metas)
        ELSE Left(decode_records(index.bytes, Len(index.bytes) \div RecordSize, <<>>),
                  self_id, metas)

\* One past the last index id of the coherence sweep.
SweepEnd == 70

\* The line printed for an index: coherent, or not coherent with the error.
Line(id, r) == [index_id |-> id, coherent |-> r.kind = "ok", err |-> r.err]

\* The loop of the free function assert_coherence(folder) from index_id on, out
\* being the lines printed so far.
RECURSIVE sweep_loop(_, _)
sweep_loop(id, out) ==
    IF id >= SweepEnd THEN [res |-> Ok(NoData), lines |-> out]
    ELSE IF id \notin folder THEN sweep_loop(id + 1, out)
    ELSE
    LET built == sqlite_new(id)
        checked == assert_coherence(built.index_id, built.metadatas)
    IN  IF built.res.kind # "ok" THEN [res |-> built.res, lines |-> out]
        ELSE IF checked.kind = "panic" THEN [res |-> checked, lines |-> out]
        ELSE sweep_loop(id + 1, Append(out, Line(id, checked)))

sweep == sweep_loop(0, <<>>)

-----------------------------------------------------------------------------
(* The caches on disk *)

NextSectors == 0..(Cardinality(Sectors) + 1)
IndexEchoes == {4, 7}
NoEntry == [eof |-> TRUE, length |-> 0, sector |-> 0]
Entries ==
    [eof : {FALSE}, length : Lengths, sector : NextSectors \cup {WrapSector}]
        \cup {NoEntry}
SectorsWritten(ie) ==
    {SectorBytes(ar, p, n, ie) : ar \in DatArchiveIds, p \in 0..MaxPart, n \in NextSectors}
NoSectors == [s \in Sectors |-> SectorBytes(0, 0, 0, 0)]
\* The table every readable metadata blob of the model decodes to.
Listed(S) == [k \in S |-> [crc |-> CrcOf(k), version |-> VersionOf(k)]]
NoCache == [k \in ArchiveIds |-> NoRow]

InitDat ==
    /\ backend = "dat"
    /\ datPresent \in BOOLEAN
    /\ idxPresent \in BOOLEAN
    /\ IF datPresent /\ idxPresent THEN entry \in Entries ELSE entry = NoEntry
    /\ IF datPresent
       THEN \E ie \in IndexEchoes : hdr \in [Sectors -> SectorsWritten(ie)]
       ELSE hdr = NoSectors
    /\ jcachePresent = FALSE
    /\ index_rows = "norow"
    /\ blobMeta = Listed(DatArchiveIds)
    /\ cache = NoCache

InitSqlite ==
    /\ backend = "sqlite"
    /\ datPresent = FALSE
    /\ idxPresent = FALSE
    /\ entry = NoEntry
    /\ hdr = NoSectors
    /\ jcachePresent \in BOOLEAN
    /\ index_rows \in (IF jcachePresent THEN {"norow", "bad", "ok"} ELSE {"norow"})
    /\ IF index_rows = "ok"
       THEN /\ \E S \in SUBSET ArchiveIds : blobMeta = Listed(S)
            /\ cache \in {c \in [ArchiveIds -> UNION {Rows(k) : k \in ArchiveIds} \cup {NoRow}] :
                            \A k \in ArchiveIds : c[k] \in (Rows(k) \cup {NoRow})}
       ELSE blobMeta = Listed({}) /\ cache = NoCache

\* The bytes of a record of map_index.
RecordBytes(mapsquare, mapfile, locfile, f2p) ==
    ToBe(mapsquare, 2) \o ToBe(mapfile, 2) \o ToBe(locfile, 2) \o <<f2p>>

Records == {RecordBytes(sq, 258, 515, f) : sq \in MapSquares, f \in F2pBytes}

\* The map_index files of up to n records.
RECURSIVE IndexFiles(_)
IndexFiles(n) ==
    IF n = 0 THEN {<<>>}
    ELSE IndexFiles(n - 1) \cup {r \o f : r \in Records, f \in IndexFiles(n - 1)}

\* The archives (0, 5): the three files with a map_index of whole records and
\* possibly three bytes more, or one of the three files missing.
MapFileSets ==
    {[names |-> {"map_index", "map_version", "map_crc"}, index |-> f \o t] :
        f \in IndexFiles(MaxRecords), t \in {<<>>, <<9, 9, 9>>}}
    \cup {[names |-> {"map_index", "map_version", "map_crc"} \ {n}, index |-> <<>>] :
            n \in {"map_index", "map_version", "map_crc"}}

\* A legacy cache whose data file holds archive 5 of index 0 in every sector.
InitMapCache ==
    /\ backend = "dat"
    /\ datPresent = TRUE
    /\ idxPresent = TRUE
    /\ entry = [eof |-> FALSE, length |-> 300, sector |-> 1]
    /\ \E ie \in IndexEchoes : hdr = [s \in Sectors |-> SectorBytes(MapArchive, 0, 0, ie)]
    /\ jcachePresent = FALSE
    /\ index_rows = "norow"
    /\ blobMeta = Listed(DatArchiveIds)
    /\ cache = NoCache
    /\ map_files \in MapFileSets

Init ==
    /\ \/ InitDat /\ map_files = NoFiles
       \/ InitSqlite /\ map_files = NoFiles
       \/ InitMapCache
    /\ folder = {}
    /\ lines = <<>>
    /\ walk = NoWalk
    /\ state = "none"
    /\ index_id = 0
    /\ metadatas = EmptyMetadata
    /\ call = NoCall
    /\ result = NoResult

-----------------------------------------------------------------------------
(* The operations of a CacheIndex *)

\* An operation on a CacheIndex that was built; a panic ends the program.
Built(b) ==
    /\ backend = b
    /\ state = "open"
    /\ result.kind # "panic"
    /\ UNCHANGED <<disk, lines, walk, state, index_id, metadatas>>

DatNew ==
    /\ backend = "dat"
    /\ state = "none"
    /\ \E id \in DatIndexIds :
          /\ call' = [op |-> "new", index_id |-> id, archive_id |-> 0]
          /\ result' = dat_new(id).res
          /\ state' = IF dat_new(id).res.kind = "ok" THEN "open" ELSE "failed"
          /\ index_id' = dat_new(id).index_id
          /\ metadatas' = dat_new(id).metadatas
    /\ UNCHANGED <<disk, lines, walk>>

SqliteNew ==
    /\ backend = "sqlite"
    /\ state = "none"
    /\ \E id \in SqliteIndexIds :
          /\ call' = [op |-> "new", index_id |-> id, archive_id |-> 0]
          /\ result' = sqlite_new(id).res
          /\ state' = IF sqlite_new(id).res.kind = "ok" THEN "open" ELSE "failed"
          /\ index_id' = sqlite_new(id).index_id
          /\ metadatas' = sqlite_new(id).metadatas
    /\ UNCHANGED <<disk, lines, walk>>

DatReadIndex ==
    /\ Built("dat")
    /\ \E a \in DatMetaIndexIds \cup {MetadataIndex}, b \in DatArchiveIds, checks \in BOOLEAN :
          /\ call' = [op |-> "read_index", index_id |-> a, archive_id |-> b]
          /\ result' = read_index(a, b, checks)

DatGetFile ==
    /\ Built("dat")
    /\ \E a \in DatMetaIndexIds, b \in DatArchiveIds, checks \in BOOLEAN, valid \in BOOLEAN :
          /\ call' = [op |-> "get_file", index_id |-> a, archive_id |-> b]
          /\ result' = dat_get_file([index_id |-> a, archive_id |-> b,
                                     crc |-> CrcOf(b), version |-> VersionOf(b)],
                                    checks, valid)

SqliteGetFile ==
    /\ Built("sqlite")
    /\ \E k \in DOMAIN metadatas, valid \in BOOLEAN :
          /\ call' = [op |-> "get_file", index_id |-> index_id, archive_id |-> k]
          /\ result' = sqlite_get_file(index_id, metadatas[k], valid)

SqliteAssertCoherence ==
    /\ Built("sqlite")
    /\ call' = [op |-> "assert_coherence", index_id |-> index_id, archive_id |-> 0]
    /\ result' = assert_coherence(index_id, metadatas)

DatGetIndex ==
    /\ backend = "dat"
    /\ state = "open"
    /\ result.kind # "panic"
    /\ \E checks \in BOOLEAN :
          /\ call' = [op |-> "get_index", index_id |-> index_id, archive_id |-> 0]
          /\ result' = get_index(index_id, metadatas, checks).res
          /\ index_id' = get_index(index_id, metadatas, checks).index_id
          /\ metadatas' = get_index(index_id, metadatas, checks).metadatas
    /\ UNCHANGED <<disk, lines, walk, state>>

DatArchiveByName ==
    /\ Built("dat")
    /\ \E name \in Names, checks \in BOOLEAN, valid \in BOOLEAN :
          /\ call' = [op |-> "archive_by_name", index_id |-> index_id, archive_id |-> 0,
                      name |-> name]
          /\ result' = archive_by_name(metadatas, name, checks, valid)

\* The free function assert_coherence(folder), run by --assert coherence.
Sweep ==
    /\ backend = "sqlite"
    /\ result.kind # "panic"
    /\ call' = [op |-> "sweep", index_id |-> 0, archive_id |-> 0]
    /\ result' = sweep.res
    /\ lines' = sweep.lines
    /\ UNCHANGED <<disk, walk, state, index_id, metadatas>>

Next ==
    \/ DatNew
    \/ SqliteNew
    \/ DatReadIndex
    \/ DatGetFile
    \/ DatArchiveByName
    \/ DatGetIndex
    \/ SqliteGetFile
    \/ SqliteAssertCoherence

Spec == Init /\ [][Next]_vars

\* One call of read_index taken one sector at a time: the call begins with
\* get_entry, then every step is one turn of the loop.
WalkBegin ==
    /\ backend = "dat"
    /\ state = "open"
    /\ walk.pc = "idle"
    /\ \E b \in DatArchiveIds, checks \in BOOLEAN :
          /\ call' = [op |-> "read_index", index_id |-> index_id, archive_id |-> b]
          /\ walk' = walk_begin(index_id, b, checks)
          /\ result' = walk_begin(index_id, b, checks).res
    /\ UNCHANGED <<disk, lines, state, index_id, metadatas>>

WalkStep ==
    /\ walk.pc = "loop"
    /\ walk' = walk_step(walk)
    /\ result' = walk_step(walk).res
    /\ UNCHANGED <<disk, lines, state, index_id, metadatas, call>>

NextWalk == WalkBegin \/ WalkStep

\* An open legacy CacheIndex over the data files whose sectors all belong to one
\* archive, linked in every way, and an idx entry for no bytes or for 1024 bytes.
InitWalk ==
    /\ InitDat
    /\ datPresent
    /\ idxPresent
    /\ ~entry.eof
    /\ entry.length \in {0, 1024}
    /\ \E ar \in DatArchiveIds :
          \A s \in Sectors :
             hdr[s] \in {SectorBytes(ar, p, n, 4) : p \in 0..MaxPart, n \in NextSectors}
    /\ folder = {}
    /\ map_files = NoFiles
    /\ lines = <<>>
    /\ walk = NoWalk
    /\ state = "open"
    /\ \E id \in DatIndexIds : index_id = id
    /\ metadatas = EmptyMetadata
    /\ call = NoCall
    /\ result = NoResult

\* The loop body neither blocks nor waits: a call that is in the loop takes its
\* next step.
SpecWalk == InitWalk /\ [][NextWalk]_vars /\ WF_vars(WalkStep)

\* The tables of named archives a legacy CacheIndex can hold.
NamedTables ==
    UNION {[S -> {[index_id |-> a, archive_id |-> 0, crc |-> 0, version |-> 0, name |-> h] :
                      a \in DatIndexIds, h \in {hash_archive(n) : n \in Names} \cup {None}}]
              : S \in SUBSET DatArchiveIds}

\* archive_by_name as a function of the metadata table: a legacy CacheIndex over
\* a data file of one-sector archives, holding any table of named archives.
InitByName ==
    /\ backend = "dat"
    /\ datPresent = TRUE
    /\ idxPresent = TRUE
    /\ entry \in {[eof |-> FALSE, length |-> 300, sector |-> s] : s \in Sectors}
    /\ hdr \in [Sectors -> {SectorBytes(ar, 0, 0, 4) : ar \in DatArchiveIds}]
    /\ jcachePresent = FALSE
    /\ index_rows = "norow"
    /\ blobMeta = Listed(DatArchiveIds)
    /\ cache = NoCache
    /\ folder = {}
    /\ map_files = NoFiles
    /\ lines = <<>>
    /\ walk = NoWalk
    /\ state = "open"
    /\ \E id \in DatIndexIds : index_id = id
    /\ \E t \in NamedTables :
          metadatas = [k \in DOMAIN t |-> [t[k] EXCEPT !.archive_id = k]]
    /\ call = NoCall
    /\ result = NoResult

SpecByName == InitByName /\ [][DatArchiveByName]_vars

\* The coherence sweep over a folder of jcache files that all hold the same rows.
InitSweep ==
    /\ InitSqlite
    /\ folder \in SUBSET SqliteIndexIds
    /\ jcachePresent <=> folder # {}
    /\ map_files = NoFiles
    /\ lines = <<>>
    /\ walk = NoWalk
    /\ state = "none"
    /\ index_id = 0
    /\ metadatas = EmptyMetadata
    /\ call = NoCall
    /\ result = NoResult

SpecSweep == InitSweep /\ [][Sweep]_vars

-----------------------------------------------------------------------------
(* The claims *)

\* The archive the last call named, its stored row and its Metadata.
StoredRow == cache[call.archive_id]
CallMeta == metadatas[call.archive_id]
\* The CRC offset as the specification words it.
SpecCrcOffset(A) == IF A \in {8, 47} THEN 2 ELSE 1
SqliteCall(op) == backend = "sqlite" /\ state = "open" /\ call.op = op
DatCall(op) == backend = "dat" /\ state = "open" /\ call.op = op
Failed(e) == result.kind = "err" /\ result.err = e

\* The archive (255, index_id) as the sector reader returns it, and whether it
\* is a whole, non-empty blob.
MetadataBlob == read_index(MetadataIndex, index_id, FALSE)
BlobReadable ==
    /\ MetadataBlob.kind = "ok"
    /\ DataLen(MetadataBlob.data) > 0
    /\ DataLen(MetadataBlob.data) = entry.length

\* C1: after a successful open of a legacy index, metadatas() is the metadata
\* decoded from the archive (255, index_id) that the sector reader returns.
C1_OpenLoadsMetadata ==
    (backend = "dat" /\ state = "open" /\ BlobReadable)
        => metadatas = deserialize(index_id, blobMeta)

\* C2: a jcache get_file that returns a payload found a row that is not an empty
\* slot, whose CRC is meta.crc + crc_offset(index_id) and whose VERSION is
\* meta.version.
C2_PayloadOnlyWhenIntact ==
    (SqliteCall("get_file") /\ result.kind = "ok")
        => /\ StoredRow.present
           /\ StoredRow.crc = CallMeta.crc + SpecCrcOffset(index_id)
           /\ StoredRow.version = CallMeta.version
           /\ ~(StoredRow.crc = 0 /\ StoredRow.version = 0)

C2_Witness ==
    /\ SqliteCall("get_file")
    /\ result.kind = "ok"
    /\ result.data.inflated
    /\ index_id = 47

\* C3: a read of the sector reader that succeeds on an archive with a first
\* sector returns exactly `length` bytes, the length of the idx entry.
C3_ReadHasEntryLength ==
    (DatCall("read_index") /\ result.kind = "ok" /\ entry.sector # 0)
        => DataLen(result.data) = entry.length

\* The first sector of the chain, decoded as the reader decodes it for archive b.
FirstSectorEchoes(b) ==
    LET h == hdr[entry.sector]
        n == IF b >= LargeArchive THEN 4 ELSE 2
    IN  [archive |-> FromBe(SubSeq(h, 1, n)), part |-> FromBe(SubSeq(h, n + 1, n + 2))]
FirstSectorMismatch ==
    /\ idxPresent /\ ~entry.eof /\ entry.sector \in Sectors
    /\ \/ FirstSectorEchoes(call.archive_id).archive # call.archive_id
       \/ FirstSectorEchoes(call.archive_id).part # 0

\* C4: a sector whose archive echo or part echo does not match ends the read with
\* an error that is returned to the caller.
C4_MismatchIsReturned ==
    (DatCall("read_index") /\ FirstSectorMismatch) => result.kind = "err"

\* C5: reading an archive whose idx entry has first_sector = 0 fails with
\* ArchiveNotFound, whatever the length field.
C5_NoFirstSectorIsNotFound ==
    ((DatCall("read_index") \/ DatCall("get_file"))
        /\ idxPresent /\ ~entry.eof /\ entry.sector = 0)
        => Failed("ArchiveNotFound")

\* C6 as claimed: open succeeds only on a directory that holds every file of the
\* index, for legacy main_file_cache.dat and main_file_cache.idx{index_id}.
C6_OpenNeedsEveryFile ==
    (call.op = "new" /\ result.kind = "ok")
        => /\ backend = "sqlite" => jcachePresent
           /\ backend = "dat" => (datPresent /\ idxPresent)

\* C6 amended: open fails with CacheNotFound when js5-{index_id}.jcache (jcache)
\* or main_file_cache.dat (legacy) is absent; an absent main_file_cache.idx{A}
\* is reported as CacheNotFound by the read of an archive.
C6_OpenCacheNotFound ==
    /\ (call.op = "new" /\ backend = "sqlite" /\ ~jcachePresent) => Failed("CacheNotFound")
    /\ (call.op = "new" /\ backend = "dat" /\ ~datPresent) => Failed("CacheNotFound")
    /\ (call.op = "new" /\ result.kind = "ok")
          => (IF backend = "dat" THEN datPresent ELSE jcachePresent)
    /\ ((DatCall("read_index") \/ DatCall("get_file")) /\ ~idxPresent)
          => Failed("CacheNotFound")

C6_Witness ==
    /\ backend = "dat"
    /\ call.op = "new"
    /\ ~datPresent
    /\ state = "failed"
    /\ Failed("CacheNotFound")

\* C7: for a stored row that is not an empty slot, the jcache get_file fails with
\* Crc exactly when meta.crc + crc_offset(A) differs from the stored CRC, where
\* crc_offset is 2 for A in {8, 47} and 1 otherwise; the error carries both values.
C7_CrcOffset ==
    (SqliteCall("get_file") /\ StoredRow.present
        /\ ~(StoredRow.crc = 0 /\ StoredRow.version = 0))
        => /\ Failed("Crc") <=> (CallMeta.crc + SpecCrcOffset(index_id) # StoredRow.crc)
           /\ Failed("Crc") =>
                 /\ result.expected = CallMeta.crc + SpecCrcOffset(index_id)
                 /\ result.actual = StoredRow.crc

C7_Witness ==
    /\ SqliteCall("get_file")
    /\ index_id = 47
    /\ StoredRow.present
    /\ StoredRow.crc = CallMeta.crc + 1
    /\ Failed("Crc")
    /\ result.expected = CallMeta.crc + 2

\* C8: the jcache get_file fails with ArchiveNotFound when the archive has no row
\* and when its row has CRC = 0 and VERSION = 0, never with Crc or Version.
C8_EmptySlotIsNotFound ==
    (SqliteCall("get_file")
        /\ (~StoredRow.present \/ (StoredRow.crc = 0 /\ StoredRow.version = 0)))
        => Failed("ArchiveNotFound")

C8_Witness ==
    /\ SqliteCall("get_file")
    /\ StoredRow.present
    /\ StoredRow.crc = 0
    /\ StoredRow.version = 0
    /\ Failed("ArchiveNotFound")

\* What the specification says of one archive of metadatas and its stored row.
Matches(k) ==
    /\ cache[k].present
    /\ cache[k].crc = metadatas[k].crc + SpecCrcOffset(index_id)
    /\ cache[k].version = metadatas[k].version
Incoherent == {k \in DOMAIN metadatas : ~Matches(k)}
FirstIncoherent == CHOOSE k \in Incoherent : \A j \in Incoherent : k <= j
ErrorOf(k) ==
    IF ~cache[k].present \/ (cache[k].crc = 0 /\ cache[k].version = 0)
    THEN "ArchiveNotFound"
    ELSE IF cache[k].crc # metadatas[k].crc + SpecCrcOffset(index_id) THEN "Crc"
    ELSE "Version"

\* C9: assert_coherence returns success exactly when every archive of metadatas
\* has a matching row, and otherwise returns the error of the first archive, in
\* ascending id order, that does not.
C9_CoherenceFirstMismatch ==
    SqliteCall("assert_coherence")
        => IF Incoherent = {} THEN result.kind = "ok"
           ELSE /\ Failed(ErrorOf(FirstIncoherent))
                /\ result.archive = FirstIncoherent

\* C10: when an archive of metadatas has no row in the cache table,
\* assert_coherence returns an error, ArchiveNotFound when that archive is the
\* first one that does not match.
C10_MissingRowIsReturned ==
    (SqliteCall("assert_coherence") /\ \E k \in DOMAIN metadatas : ~cache[k].present)
        => /\ result.kind = "err"
           /\ result.err \in {"Crc", "Version", "ArchiveNotFound"}
           /\ ~cache[FirstIncoherent].present => Failed("ArchiveNotFound")

\* The bytes before chunk i of a buffer that the sector reader returned.
ReadBefore(chunks, i) == SumLen(SubSeq(chunks, 1, i - 1))

\* C15: every sector of a chain read for archive B gives a 10-byte header and a
\* body of min(510, length - read) bytes when B >= 0xFFFF, an 8-byte header and a
\* body of min(512, length - read) bytes otherwise; the header holds the archive
\* echo (u32 or u16), the part (u16), the next sector (u24) and the index (u8).
C15_HeaderAndBody ==
    (DatCall("read_index") /\ result.kind = "ok")
        => \A i \in 1..Len(result.data.chunks) :
              LET c == result.data.chunks[i]
                  B == call.archive_id
                  left == entry.length - ReadBefore(result.data.chunks, i)
              IN  /\ c[1] % 520 = (IF B >= 65535 THEN 10 ELSE 8)
                  /\ c[2] = (IF B >= 65535 THEN Min(510, left) ELSE Min(512, left))
                  /\ \E n \in NextSectors, ie \in IndexEchoes :
                        hdr[c[1] \div 520] = SectorBytes(B, i - 1, n, ie)

C15_Witness ==
    /\ DatCall("read_index")
    /\ result.kind = "ok"
    /\ call.archive_id = 65535
    /\ Len(result.data.chunks) = 2
    /\ result.data.chunks[1][2] = 510
    /\ result.data.chunks[2][2] = 2

\* C18: the seek of a sector goes to sector * 520 for every uint24 sector number:
\* a first sector past the end of the data file is an end-of-input failure.
C18_SeekIsExact ==
    (DatCall("read_index") /\ idxPresent /\ ~entry.eof /\ entry.sector = WrapSector)
        => Failed("EndOfInput")

\* The kinds of failure that the coherence check looks for.
CoherenceErrors == {"ArchiveNotFound", "Crc", "Version"}

\* C20: on the same database, when assert_coherence succeeds no get_file of an
\* archive of metadatas fails with ArchiveNotFound, Crc or Version, and when a
\* get_file fails with one of them assert_coherence does not succeed.
C20_CoherenceAgreesWithFetch ==
    /\ (SqliteCall("assert_coherence") /\ result.kind = "ok")
          => \A k \in DOMAIN metadatas, valid \in BOOLEAN :
                sqlite_get_file(index_id, metadatas[k], valid).err \notin CoherenceErrors
    /\ (SqliteCall("get_file") /\ result.kind = "err" /\ result.err \in CoherenceErrors)
          => assert_coherence(index_id, metadatas).kind # "ok"

C20_Witness ==
    /\ SqliteCall("assert_coherence")
    /\ result.kind = "ok"
    /\ Cardinality(DOMAIN metadatas) >= 2

\* The present index ids below id, which the sweep visits before it.
Before(id) == {k \in folder : k < id}

\* C17: the sweep visits the ids 0..70 in ascending order, skips the ids whose
\* file is missing and prints exactly one line for every present index, coherent
\* or not coherent with the mismatch; it is not stopped by an incoherent index
\* and returns success.
C17_OneLinePerPresentIndex ==
    call.op = "sweep"
        => /\ result.kind = "ok"
           /\ Len(lines) = Cardinality(folder)
           /\ \A id \in folder :
                 /\ lines[Cardinality(Before(id)) + 1].index_id = id
                 /\ lines[Cardinality(Before(id)) + 1].coherent
                       = (assert_coherence(id, deserialize(id, blobMeta)).kind = "ok")

\* The archives whose name hash is the hash of the name that was looked up.
NameMatches == {k \in DOMAIN metadatas : metadatas[k].name = hash_archive(call.name)}

\* C12: archive_by_name(name) gives what get_file gives for the first archive, in
\* ascending order of the archive ids of metadatas, whose name hash is the 32-bit
\* hash of name, and fails with ArchiveNotFound when no archive has that hash.
C12_ByNameIsFirstMatch ==
    DatCall("archive_by_name")
        => /\ hash_archive(<<104, 117, 102, 102, 109, 97, 110>>) = <<19196, 29613>>
           /\ IF NameMatches = {}
              THEN Failed("ArchiveNotFound")
              ELSE \E checks \in BOOLEAN, valid \in BOOLEAN :
                      result = dat_get_file(metadatas[MinKey(NameMatches)], checks, valid)

C12_Witness ==
    /\ DatCall("archive_by_name")
    /\ Cardinality(NameMatches) = 2
    /\ call.name = <<66, 66>>
    /\ result.kind = "ok"
    /\ result.data.key = MinKey(NameMatches)

\* The records of the map_index file: their number, the bytes of record r, the
\* key and the MapsquareMeta the record stands for.
RecordCount == Len(map_files.index) \div 7
RecordAt(r) == SubSeq(map_files.index, 7 * (r - 1) + 1, 7 * r)
SquareOf(r) == RecordAt(r)[1] * 256 + RecordAt(r)[2]
KeyOf(r) == <<SquareOf(r) \div 256, SquareOf(r) % 256>>
MetaOf(r) ==
    [mapsquare |-> SquareOf(r),
     mapfile |-> RecordAt(r)[3] * 256 + RecordAt(r)[4],
     locfile |-> RecordAt(r)[5] * 256 + RecordAt(r)[6],
     f2p |-> RecordAt(r)[7] # 0]
LastWith(key) ==
    CHOOSE r \in 1..RecordCount :
        KeyOf(r) = key /\ \A q \in 1..RecordCount : KeyOf(q) = key => q <= r
GotIndex == DatCall("get_index") /\ result.kind = "ok"

\* C13: get_index decodes map_index as len / 7 records of 7 bytes (mapsquare u16,
\* mapfile u16, locfile u16, f2p u8) and returns a map ordered by key that holds
\* each record under (mapsquare >> 8, mapsquare & 0xFF), the later record where
\* two have one key, with f2p true exactly when the byte is not zero.
C13_MapIndexDecoded ==
    GotIndex
        => /\ {result.data[x].key : x \in 1..Len(result.data)}
                 = {KeyOf(r) : r \in 1..RecordCount}
           /\ \A x, y \in 1..Len(result.data) :
                 x < y => KeyLess(result.data[x].key, result.data[y].key)
           /\ \A x \in 1..Len(result.data) :
                 result.data[x].meta = MetaOf(LastWith(result.data[x].key))

C13_Witness ==
    /\ GotIndex
    /\ RecordCount = 2
    /\ Len(map_files.index) = 17
    /\ KeyOf(1) = KeyOf(2)
    /\ MetaOf(1).f2p /\ ~MetaOf(2).f2p
    /\ Len(result.data) = 1

\* C14: every key (i, j) of the map get_index returns has i < 128, whatever the
\* map_index file holds.
C14_KeysBelow128 ==
    GotIndex => \A x \in 1..Len(result.data) : result.data[x].key[1] < 128

\* C16: get_index returns with index_id at the value it had before the call, and
\* no operation finds index_id = 0 in a CacheIndex opened with another id.
C16_IndexIdRestored ==
    /\ GotIndex => index_id = call.index_id
    /\ (backend = "dat" /\ state = "open" /\ result.kind # "panic")
          => index_id \in DatIndexIds \ {0}

C16_Witness ==
    /\ GotIndex
    /\ index_id = 4
    /\ Len(result.data) = 2

\* The part echo is a 16-bit field; the model writes the parts 0..MaxPart.
PartValues == Min(MaxPart + 1, 65536)

\* What holds of the locals of read_index at every step of a call.
WalkBounded ==
    walk.pc # "idle"
        => /\ walk.read_count <= walk.length
           /\ walk.part <= PartValues
           /\ Len(walk.chunks) <= walk.part
           /\ walk.pc = "done" => walk.res = read_index(walk.a, walk.b, walk.checks)

\* C19: the sector walk of read_index always finishes, with a result or a
\* failure, also when the next-sector links form a cycle or never reach 0: every
\* sector it passes echoes the running part counter in a 16-bit field, so it
\* passes no more sectors than there are part values, and read <= length holds
\* at every step.
C19_WalkFinishes ==
    /\ []WalkBounded
    /\ (walk.pc = "loop") ~> (walk.pc = "done")

C19_Witness ==
    /\ walk.pc = "done"
    /\ walk.res.kind = "panic"
    /\ walk.res.err = "assert_eq part"
    /\ walk.part = 2
    /\ walk.sector = entry.sector
    /\ walk.read_count = walk.length

\* C11: once a CacheIndex is open no call changes its metadata mapping, whether
\* the call succeeds or fails, and no call, assert_coherence included, writes to
\* the cache.
C11_MetadataIsFrozen ==
    [][state = "open" => (metadatas' = metadatas /\ disk' = disk)]_vars

C11_Witness ==
    /\ SqliteCall("assert_coherence")
    /\ result.kind = "err"
    /\ metadatas # EmptyMetadata
    /\ metadatas = deserialize(index_id, blobMeta)

====
